---- MODULE Spec2Model ----
(***************************************************************************)
(* GFileMux: the Upload middleware (handler.go), its per-field workers     *)
(* run through a zero-value errgroup.Group, the shared uploadedFiles map,  *)
(* and the request-context result store (context.go).                      *)
(*                                                                         *)
(* One behaviour is one request served by one handler built by New.        *)
(***************************************************************************)
EXTENDS Integers, Sequences, FiniteSets, TLC

(***************************************************************************)
(* Bounds of the model.                                                    *)
(***************************************************************************)
MaxKeys == 2    \* longest list of keys handed to Upload(bucket, keys...)
MaxFiles == 4   \* most files the workers of one request go through
MaxSize == 2    \* the size given to WithMaxFileSize, in bytes
MaxCalls == 3   \* addFilesToContext calls along one chain of contexts
MaxSlice == 2   \* files in one slice handed to addFilesToContext
MaxChain == 3   \* validators handed to ChainValidators
MaxAllow == 2   \* MIME types handed to ValidateMimeType
MaxMime == 2    \* characters of a MIME type
MaxBytes == 3   \* bytes a sniffed source holds
MaxSniffs == 2  \* FetchContentType calls on one source
MaxUnix == 11   \* latest second of the clock
MaxName == 2    \* characters of an original file name

(***************************************************************************)
(* Program constants.                                                      *)
(***************************************************************************)
DefaultMaxFileUploadSize == 5242880   \* 1024 * 1024 * 5

Fields == {"a", "b"}                  \* form field names
Workers == 1..MaxKeys                 \* one goroutine per position in keys

(***************************************************************************)
(* Errors.  The handler builds them with fmt.Errorf; kind stands for the   *)
(* message format and key for the field name printed into it.              *)
(***************************************************************************)
NoErr == [kind |-> "nil", key |-> "-"]
Err(kind, key) == [kind |-> kind, key |-> key]

ErrFileSizeExceeded == Err("file size exceeded the limit", "-")
ErrMalformed == Err("multipart parse error", "-")
ErrFilesNotFoundInKey(key) == Err("files could not be found in key", key)
ErrCouldNotOpenFile(key) == Err("could not open file for key", key)
ErrInvalidMimeType(key) == Err("has an invalid MIME type", key)
ErrValidationFailed_CauseDropped(key, err) ==
    [kind |-> "validation failed for", key |-> key, cause |-> "-"]
ErrValidationFailed(key, err) ==
    [kind |-> "validation failed for", key |-> key, cause |-> err]
ErrCouldNotUploadFile(key) == Err("could not upload file to storage", key)

(***************************************************************************)
(* Go map helpers: Files is map[string][]File.  A map is a function whose  *)
(* domain is the set of keys present; reading a missing key gives the nil  *)
(* slice.                                                                  *)
(***************************************************************************)
EmptyFiles == [k \in {} |-> <<>>]
MapGet(m, k) == IF k \in DOMAIN m THEN m[k] ELSE <<>>
MapSet(m, k, v) == [x \in (DOMAIN m) \cup {k} |-> IF x = k THEN v ELSE m[x]]

\* The File record appended at handler.go:170 (the fields the claims use).
File(key, i) == [FieldName |-> key, OriginalName |-> i]

(***************************************************************************)
(* New (handler.go:40-68): a non-positive maximum size becomes the         *)
(* default.                                                                *)
(***************************************************************************)
\* Mutant of NewMaxSize: the size given is kept as it is.
NewMaxSize_Kept(size) == size

NewMaxSize(size) == IF size <= 0 THEN DefaultMaxFileUploadSize ELSE size

(***************************************************************************)
(* http.MaxBytesReader + ParseMultipartForm (handler.go:88-90).  The       *)
(* parser reads the body front to back and stops after `need` bytes,       *)
(* either at the closing boundary ("form") or at a syntax error            *)
(* ("malformed"); the limiting reader fails the first read past maxSize.   *)
(***************************************************************************)
ParseMultipartForm(maxSize, need, kind) ==
    IF need > maxSize THEN "request body too large"
    ELSE IF kind = "malformed" THEN "malformed"
    ELSE "ok"

\* Mutant of IsBodyTooLarge: the handler looks for a text the error never has.
IsBodyTooLarge_WrongText(outcome) == outcome = "body too large"

\* strings.Contains(err.Error(), "request body too large") (handler.go:92)
IsBodyTooLarge(outcome) == outcome = "request body too large"

(***************************************************************************)
(* errgroup.Group as used at handler.go:104: the zero value, which has no  *)
(* cancel function.  Go records the first non-nil error (errOnce) and      *)
(* calls the group's cancel only if it has one.                            *)
(***************************************************************************)
GroupHasCancel == FALSE

\* Mutant of errOnce: every failing worker overwrites the recorded error.
errOnce_LastWins(old, err) == err

errOnce(old, err) == IF old = NoErr THEN err ELSE old

\* Mutant of WaitReturns: the wait ends with the first goroutine to return.
WaitReturns_First(pcs, n) == n = 0 \/ \E w \in 1..n : pcs[w] = "returned"

\* wg.Wait() returns once every goroutine started with wg.Go has returned.
WaitReturns(pcs, n) == \A w \in 1..n : pcs[w] = "returned"

\* Mutant of WaitFailed: the handler drops the error of Wait.
WaitFailed_Dropped(err) == FALSE

\* handler.go:178: the handler publishes only when Wait returned nil.
WaitFailed(err) == err # NoErr

(***************************************************************************)
(* addFilesToContext (context.go:20-38).  ctx is [has, files]: whether the *)
(* context carries a Files value and that map.  Every non-empty slice of   *)
(* files is appended under the FieldName of its first element.  The        *)
(* existing map, when there is one, is updated in place, so the parent     *)
(* context sees the additions as well.                                     *)
(***************************************************************************)
RECURSIVE MergeSlices(_, _, _)
MergeSlices(existing, files, todo) ==
    IF todo = {} THEN existing
    ELSE LET k == CHOOSE x \in todo : TRUE
             fileSlice == files[k]
             next == IF Len(fileSlice) > 0
                     THEN MapSet(existing, fileSlice[1].FieldName,
                                 MapGet(existing, fileSlice[1].FieldName) \o fileSlice)
                     ELSE existing
         IN MergeSlices(next, files, todo \ {k})

\* Mutant of addFilesToContext: the supplied map replaces the stored one.
addFilesToContext_Overwrite(ctx, files) == [has |-> TRUE, files |-> files]

addFilesToContext(ctx, files) ==
    [has |-> TRUE,
     files |-> MergeSlices(IF ctx.has THEN ctx.files ELSE EmptyFiles,
                           files, DOMAIN files)]

\* What the parent context holds after the call: the same map object.
ParentAfterAdd(ctx, files) ==
    IF ctx.has THEN addFilesToContext(ctx, files) ELSE ctx

\* getFilesFromContext (context.go:41-46)
getFilesFromContext(ctx) == IF ctx.has THEN ctx.files ELSE EmptyFiles

NoCtxValue == [has |-> FALSE, files |-> EmptyFiles]

(***************************************************************************)
(* The result readers (context.go:49-64).  A result is [files, err]; the   *)
(* nil map and the nil slice are the empty map and the empty sequence.     *)
(***************************************************************************)
\* Mutant of NoFiles: the readers never find the store empty.
NoFiles_Never(files) == FALSE

\* len(files) == 0 (context.go:51, 60): the map has no key.
NoFiles(files) == DOMAIN files = {}

GetUploadedFilesFromContext(ctx) ==
    LET files == getFilesFromContext(ctx)
    IN  IF NoFiles(files)
        THEN [files |-> EmptyFiles, err |-> "ErrFileNotUploaded"]
        ELSE [files |-> files, err |-> "nil"]

GetFilesByFieldFromContext(ctx, key) ==
    LET files == getFilesFromContext(ctx)
    IN  IF NoFiles(files)
        THEN [files |-> <<>>, err |-> "ErrFieldFilesMissing"]
        ELSE [files |-> MapGet(files, key), err |-> "nil"]

(***************************************************************************)
(* Strings of the MIME validator (part_003:14-24).  A string is a sequence *)
(* of characters; "a" and "A" are the two cases of one letter and "b" is  *)
(* another letter, in lower case.                                          *)
(***************************************************************************)
Chars == {"a", "A", "b"}
Strings(n) == UNION {[1..m -> Chars] : m \in 1..n}

LowerOf(c) == IF c = "A" THEN "a" ELSE c
UpperOf(c) == IF c = "a" THEN "A" ELSE IF c = "b" THEN "B" ELSE c

\* strings.ToLower
ToLower(str) == [i \in 1..Len(str) |-> LowerOf(str[i])]

\* Mutant of EqualFold: the comparison is exact.
EqualFold_Exact(str, t) == str = t

\* strings.EqualFold: equal under simple case folding.
EqualFold(str, t) ==
    /\ Len(str) = Len(t)
    /\ \A i \in 1..Len(str) :
          str[i] = t[i] \/ UpperOf(str[i]) = UpperOf(t[i])

NilError == [msg |-> "nil", mimeType |-> <<>>]
ErrUnsupportedMimeType(mimeType) ==
    [msg |-> "unsupported MIME type uploaded", mimeType |-> mimeType]

\* ValidateMimeType(validMimeTypes...)(file): the loop of part_003:16-20 from
\* position i on, then the error of part_003:22.
RECURSIVE ValidateMimeTypeFrom(_, _, _)
ValidateMimeTypeFrom(validMimeTypes, file, i) ==
    IF i > Len(validMimeTypes) THEN ErrUnsupportedMimeType(file.MimeType)
    ELSE IF EqualFold(ToLower(validMimeTypes[i]), file.MimeType) THEN NilError
    ELSE ValidateMimeTypeFrom(validMimeTypes, file, i + 1)

ValidateMimeType(validMimeTypes, file) ==
    ValidateMimeTypeFrom(validMimeTypes, file, 1)

\* Mutant of Rejects: ChainValidators goes on after an error.
Rejects_Never(err) == FALSE

\* err != nil (part_003:36)
Rejects(err) == err # "nil"

(***************************************************************************)
(* New (handler.go:40-68).  options is the handler after the options were  *)
(* applied to the zero value (handler.go:41-45): a field no option set is  *)
(* "nil", 0 or FALSE.  The result is the pair New returns.                 *)
(***************************************************************************)
\* DefaultFileValidator (part_004:28-30) accepts every file.
DefaultFileValidator(f) == "nil"

OrDefault(given, default) == IF given = "nil" THEN default ELSE given

NilHandler ==
    [storage |-> "nil", maxSize |-> 0, ignoreNonExistentKeys |-> FALSE,
     fileValidator |-> "nil", fileNameGenerator |-> "nil",
     uploadErrorHandler |-> "nil"]

New(options) ==
    LET handler ==
          [storage |-> options.storage,
           maxSize |-> NewMaxSize(options.maxSize),
           ignoreNonExistentKeys |-> options.ignoreNonExistentKeys,
           fileValidator |->
              OrDefault(options.fileValidator, "DefaultFileValidator"),
           fileNameGenerator |->
              OrDefault(options.fileNameGenerator,
                        "DefaultFileNameGeneratorFunc"),
           uploadErrorHandler |->
              OrDefault(options.uploadErrorHandler,
                        "DefaultUploadErrorHandlerFunc")]
    IN  IF options.storage = "nil"
        THEN [handler |-> NilHandler,
              err |-> "a storage backend must be provided"]
        ELSE [handler |-> handler, err |-> "nil"]

(***************************************************************************)
(* FetchContentType (part_000:22-54).  A source is an io.ReadSeeker:       *)
(* content, the bytes it holds; pos, its read position; chunk, the most    *)
(* bytes one Read returns.  A byte is "%", "P" or "z" (a zero byte).  A    *)
(* content type is the sequence of its parts between the ";".              *)
(***************************************************************************)
SniffLen == 512

Min(a, b) == IF a < b THEN a ELSE b

\* Mutant of SeekStart: the position stays where it is.
SeekStart_Stays(src) == src

\* f.Seek(0, io.SeekStart), successful
SeekStart(src) == [src EXCEPT !.pos = 0]

\* f.Read(buffer), successful or at the end: the bytes from pos on that fit
\* the buffer and one Read.
BytesRead(src, size) ==
    LET n == Min(Min(size, src.chunk), Len(src.content) - src.pos)
    IN  SubSeq(src.content, src.pos + 1, src.pos + n)
AfterRead(src, n) == [src EXCEPT !.pos = @ + n]

\* http.DetectContentType on a few signatures: "%P" starts a PDF, data with
\* a zero byte is binary, anything else (no data too) is text.
DetectContentType(data) ==
    IF Len(data) >= 2 /\ data[1] = "%" /\ data[2] = "P"
    THEN <<"application/pdf">>
    ELSE IF \E i \in 1..Len(data) : data[i] = "z"
    THEN <<"application/octet-stream">>
    ELSE <<"text/plain", " charset=utf-8">>

\* part_000:49-51: strings.Split(contentType, ";"), the first part kept.
StripCharset(mimeParts) == mimeParts[1]

\* One call.  fate says which of the source's operations fails, if any, and
\* how many bytes a failing Read had read.  The result is what is returned
\* and the source as the call leaves it.
FetchContentType(src, fate) ==
    IF fate.fail = "first seek"
    THEN [mime |-> "", err |-> "seek error", source |-> src]
    ELSE LET s0 == SeekStart(src)
         IN  IF fate.fail = "read"
             THEN [mime |-> "", err |-> "read error",
                   source |-> AfterRead(s0, Min(fate.n,
                                                Len(BytesRead(s0, SniffLen))))]
             ELSE LET buffer == BytesRead(s0, SniffLen)
                      s1 == AfterRead(s0, Len(buffer))
                      contentType == DetectContentType(buffer)
                  IN  IF fate.fail = "second seek"
                      THEN [mime |-> "", err |-> "seek error", source |-> s1]
                      ELSE [mime |-> StripCharset(contentType), err |-> "nil",
                            source |-> SeekStart(s1)]

(***************************************************************************)
(* DefaultFileNameGeneratorFunc (part_004:33-35):                          *)
(* fmt.Sprintf("GFileMux-%d-%s", time.Now().Unix(), s).  A string is the   *)
(* sequence of its characters.                                             *)
(***************************************************************************)
DigitChars == <<"0", "1", "2", "3", "4", "5", "6", "7", "8", "9">>

\* %d of a second of the clock (not negative: after 1970)
RECURSIVE Decimal(_)
Decimal(n) ==
    IF n < 10 THEN <<DigitChars[n + 1]>>
    ELSE Decimal(n \div 10) \o <<DigitChars[(n % 10) + 1]>>

NamePrefix == <<"G", "F", "i", "l", "e", "M", "u", "x", "-">>

\* Mutant of DefaultFileNameGeneratorFunc: no "-" after the second.
DefaultFileNameGeneratorFunc_Unseparated(unix, str) ==
    NamePrefix \o Decimal(unix) \o str

DefaultFileNameGeneratorFunc(unix, str) ==
    NamePrefix \o Decimal(unix) \o <<"-">> \o str

(***************************************************************************)
(* The records of one loop iteration (handler.go:123-170).                 *)
(***************************************************************************)
\* The File literal of handler.go:142-148.
FileData(key, header, uploadedFileName, mimeType) ==
    [FieldName |-> key,
     OriginalName |-> header.Filename,
     UploadedFileName |-> uploadedFileName,
     MimeType |-> mimeType,
     Size |-> header.Size,
     FolderDestination |-> "",
     StorageKey |-> ""]

\* The options of handler.go:156-159.
UploadFileOptions(uploadedFileName, bucket) ==
    [FileName |-> uploadedFileName, Bucket |-> bucket]

\* Mutant of MergeMetadata: the size the client reported is kept.
MergeMetadata_ClientSize(fileData, metadata) ==
    [fileData EXCEPT !.FolderDestination = metadata.FolderDestination,
                     !.StorageKey = metadata.Key]

\* handler.go:165-167
MergeMetadata(fileData, metadata) ==
    [fileData EXCEPT !.Size = metadata.Size,
                     !.FolderDestination = metadata.FolderDestination,
                     !.StorageKey = metadata.Key]

VARIABLES
    gfm,            \* the handler: [maxSize, ignoreNonExistentKeys]
    keys,           \* the keys given to Upload
    ctxParent,      \* Files value of r.Context() of the incoming request
    ctxNext,        \* Files value of the context handed to next
    phase,          \* "start", "run" (spawning / waiting), "done"
    oversize,       \* the body of the request is longer than gfm.maxSize
    overrun,        \* the parser had to read past gfm.maxSize
    parsed,         \* ParseMultipartForm returned nil
    form,           \* r.MultipartForm.File: number of files per field (0: absent)
    spawned,        \* number of wg.Go calls made so far
    wpc,            \* position of each worker
    widx,           \* index of the file header the worker is at
    werr,           \* error each worker returned
    tmp,            \* slice read by uploadedFiles[key] at handler.go:170
    uploadedFiles,  \* the per-request accumulator (handler.go:106)
    mapWriters,     \* workers inside a write of uploadedFiles
    raced,          \* workers whose current write overlapped another access
    crashed,        \* the runtime threw "concurrent map writes"
    gErr,           \* errgroup's recorded error
    ctxCancelled,   \* ctx of handler.go:100 is cancelled
    firstFailed,    \* worker that returned an error first (0: none)
    responderCalls, \* errors handed to uploadErrorHandler, in order
    nextCalls,      \* number of next.ServeHTTP calls
    nUploads,       \* Storage.Upload calls begun by each worker
    nOpens,         \* header.Open calls made by each worker
    nStored,        \* Storage.Upload calls of each worker that returned nil
    rejection,      \* error the validator returned to each worker ("-": none)
    handles         \* files each worker holds open

\* The state of the context store specification (SpecCtx).
VARIABLES
    chain,          \* the contexts derived so far, the request's own first
    supplied        \* the maps handed to addFilesToContext, in call order

storeVars == <<chain, supplied>>

\* The state of the validators specification (SpecVal).
VARIABLES
    validators,     \* ChainValidators' validators, each as its verdict on file
    vIdx,           \* position of the loop of part_003:35
    invoked,        \* positions of the validators called so far, in order
    chainErr,       \* what the chained validator returned
    vpc,            \* "off", "loop" or "returned"
    validMimeTypes, \* the allowlist handed to ValidateMimeType
    file,           \* the file handed to the MIME validator
    mimeErr,        \* what the MIME validator returned
    mpc             \* "off", "call" or "returned"

valVars == <<validators, vIdx, invoked, chainErr, vpc, validMimeTypes, file,
             mimeErr, mpc>>

\* The state of the specification of one worker's loop (SpecFile).
VARIABLES
    headers,        \* fileHeaders of the worker's field
    bucket,         \* the bucket given to Upload
    fkey,           \* the worker's key
    hidx,           \* position of the loop of handler.go:123
    fpc,            \* "off", "open", "name", "sniff", "validate", "upload",
                    \* "inflight", "returned"
    ferr,           \* what the worker returned
    uploadedFileName, \* handler.go:131
    fileData,       \* handler.go:142
    named,          \* calls of the name generator: [arg, out], in order
    validated,      \* files handed to the validator, in order
    uploads,        \* options handed to Storage.Upload, in order
    metas,          \* metadata Storage.Upload returned, in order
    fileList        \* uploadedFiles[key]

fileVars == <<headers, bucket, fkey, hidx, fpc, ferr, uploadedFileName,
              fileData, named, validated, uploads, metas, fileList>>

\* The state of the specification of New (SpecNew).
VARIABLES
    options,        \* the handler after the options were applied
    newResult,      \* what New returned
    npc             \* "off", "call" or "returned"

newVars == <<options, newResult, npc>>

\* The state of the specification of the sniffer (SpecSniff).
VARIABLES
    source,         \* the io.ReadSeeker: content, read position, read size
    sniffLog        \* what each FetchContentType call returned and left

sniffVars == <<source, sniffLog>>

\* The state of the specification of the name generator (SpecName).
VARIABLES
    genIn,          \* the calls: the second of the clock and the name given
    genOut          \* the names returned, in call order

nameVars == <<genIn, genOut>>

\* The state of the specifications of single functions.
unitVars == <<fileVars, newVars, sniffVars, nameVars>>

\* What no step of a request changes.
cfgVars == <<gfm, keys, storeVars, valVars, unitVars>>
reqVars == <<ctxParent, ctxNext, phase, oversize, overrun, parsed, form,
             spawned, responderCalls, nextCalls>>
grpVars == <<gErr, ctxCancelled, firstFailed>>
wrkVars == <<wpc, widx, werr, tmp, nUploads, nOpens, nStored, rejection,
             handles>>
mapVars == <<uploadedFiles, mapWriters, raced, crashed>>
vars == <<cfgVars, reqVars, grpVars, wrkVars, mapVars>>

KeyLists == UNION {[1..n -> Fields] : n \in 0..MaxKeys}

InitUpload ==
    /\ gfm \in {[maxSize |-> NewMaxSize(MaxSize), ignoreNonExistentKeys |-> i] :
                    i \in BOOLEAN}
    /\ keys \in KeyLists
    /\ ctxParent = NoCtxValue
    /\ ctxNext = NoCtxValue
    /\ phase = "start"
    /\ oversize = FALSE
    /\ overrun = FALSE
    /\ parsed = FALSE
    /\ form = [k \in Fields |-> 0]
    /\ spawned = 0
    /\ wpc = [w \in Workers |-> "idle"]
    /\ widx = [w \in Workers |-> 0]
    /\ werr = [w \in Workers |-> NoErr]
    /\ tmp = [w \in Workers |-> <<>>]
    /\ uploadedFiles = EmptyFiles
    /\ mapWriters = {}
    /\ raced = {}
    /\ crashed = FALSE
    /\ gErr = NoErr
    /\ ctxCancelled = FALSE
    /\ firstFailed = 0
    /\ responderCalls = <<>>
    /\ nextCalls = 0
    /\ nUploads = [w \in Workers |-> 0]
    /\ nOpens = [w \in Workers |-> 0]
    /\ nStored = [w \in Workers |-> 0]
    /\ rejection = [w \in Workers |-> "-"]
    /\ handles = [w \in Workers |-> 0]

StoreIdle == chain = <<NoCtxValue>> /\ supplied = <<>>

ChainIdle ==
    /\ validators = <<>> /\ vIdx = 1 /\ invoked = <<>>
    /\ chainErr = "nil" /\ vpc = "off"

MimeIdle ==
    /\ validMimeTypes = <<>> /\ file = [MimeType |-> <<>>]
    /\ mimeErr = NilError /\ mpc = "off"

NoHeader == [Filename |-> "", Size |-> 0]
NoFileData == FileData("", NoHeader, "", "")

FileIdle ==
    /\ headers = <<>> /\ bucket = "" /\ fkey = "" /\ hidx = 1 /\ fpc = "off"
    /\ ferr = NoErr /\ uploadedFileName = "" /\ fileData = NoFileData
    /\ named = <<>> /\ validated = <<>> /\ uploads = <<>> /\ metas = <<>>
    /\ fileList = <<>>

NewIdle ==
    /\ options = NilHandler
    /\ newResult = [handler |-> NilHandler, err |-> "nil"]
    /\ npc = "off"

SniffIdle ==
    /\ source = [content |-> <<>>, pos |-> 0, chunk |-> 1]
    /\ sniffLog = <<>>

NameIdle == genIn = <<>> /\ genOut = <<>>

UnitsIdle == FileIdle /\ NewIdle /\ SniffIdle /\ NameIdle

\* A handler that serves no request.
UploadIdle == InitUpload /\ keys = <<>> /\ ~gfm.ignoreNonExistentKeys

Init == InitUpload /\ StoreIdle /\ ChainIdle /\ MimeIdle /\ UnitsIdle


(***************************************************************************)
(* Inputs of one request.                                                  *)
(***************************************************************************)
BodyLens == 0..(NewMaxSize(MaxSize) + 1)
\* Errors a FileValidatorFunc may return.
Rejections == {"unsupported MIME type uploaded", "file too large"}
ParseStops == {"form", "malformed"}
\* The files the workers started for the keys ks have to process: a field
\* named n times is gone through by n workers.
RECURSIVE TotalFiles(_, _)
TotalFiles(f, ks) ==
    IF ks = <<>> THEN 0 ELSE f[Head(ks)] + TotalFiles(f, Tail(ks))
Forms(ks) == {f \in [Fields -> 0..MaxFiles] : TotalFiles(f, ks) <= MaxFiles}

(***************************************************************************)
(* handler.go:88-98: limit the body, parse the form, answer a parse error  *)
(* through the error responder.                                            *)
(***************************************************************************)
ParseRequest ==
    /\ phase = "start"
    /\ \E bodyLen \in BodyLens, kind \in ParseStops, f \in Forms(keys) :
       \E need \in {n \in BodyLens : n <= bodyLen} :
         LET outcome == ParseMultipartForm(gfm.maxSize, need, kind) IN
         /\ oversize' = (bodyLen > gfm.maxSize)
         /\ overrun' = (need > gfm.maxSize)
         /\ parsed' = (outcome = "ok")
         /\ IF outcome # "ok"
            THEN /\ responderCalls' =
                        Append(responderCalls,
                               IF IsBodyTooLarge(outcome)
                               THEN ErrFileSizeExceeded ELSE ErrMalformed)
                 /\ phase' = "done"
                 /\ form' = form
            ELSE /\ responderCalls' = responderCalls
                 /\ phase' = "run"
                 /\ form' = f
    /\ UNCHANGED <<cfgVars, ctxParent, ctxNext, spawned, nextCalls,
                   grpVars, wrkVars, mapVars>>

(***************************************************************************)
(* handler.go:109-112: the loop starts one goroutine per key.              *)
(***************************************************************************)
Spawn ==
    /\ phase = "run"
    /\ ~crashed
    /\ spawned < Len(keys)
    /\ spawned' = spawned + 1
    /\ wpc' = [wpc EXCEPT ![spawned + 1] = "start"]
    /\ UNCHANGED <<cfgVars, ctxParent, ctxNext, phase, oversize, overrun,
                   parsed, form, responderCalls, nextCalls, grpVars,
                   widx, werr, tmp, nUploads, nOpens, nStored, rejection,
                   handles, mapVars>>

(***************************************************************************)
(* A worker returns err: the deferred f.Close() calls run, errgroup        *)
(* records the first error and cancels if the group has a cancel function. *)
(***************************************************************************)
\* Mutant of Return: the worker takes the failed file up again.
Return_Retry(w, err) ==
    /\ wpc' = [wpc EXCEPT ![w] = IF err # NoErr THEN "file" ELSE "returned"]
    /\ werr' = [werr EXCEPT ![w] = err]
    /\ handles' = [handles EXCEPT ![w] = 0]
    /\ gErr' = IF err # NoErr THEN errOnce(gErr, err) ELSE gErr
    /\ firstFailed' = IF err # NoErr /\ firstFailed = 0 THEN w ELSE firstFailed
    /\ ctxCancelled' = (ctxCancelled \/ (err # NoErr /\ GroupHasCancel))

\* Mutant of Return: the deferred f.Close() calls do not run.
Return_NoClose(w, err) ==
    /\ wpc' = [wpc EXCEPT ![w] = "returned"]
    /\ werr' = [werr EXCEPT ![w] = err]
    /\ handles' = handles
    /\ gErr' = IF err # NoErr THEN errOnce(gErr, err) ELSE gErr
    /\ firstFailed' = IF err # NoErr /\ firstFailed = 0 THEN w ELSE firstFailed
    /\ ctxCancelled' = (ctxCancelled \/ (err # NoErr /\ GroupHasCancel))

Return(w, err) ==
    /\ wpc' = [wpc EXCEPT ![w] = "returned"]
    /\ werr' = [werr EXCEPT ![w] = err]
    /\ handles' = [handles EXCEPT ![w] = 0]
    /\ gErr' = IF err # NoErr THEN errOnce(gErr, err) ELSE gErr
    /\ firstFailed' = IF err # NoErr /\ firstFailed = 0 THEN w ELSE firstFailed
    /\ ctxCancelled' = (ctxCancelled \/ (err # NoErr /\ GroupHasCancel))

(***************************************************************************)
(* Writes of the shared map.  uploadedFiles is a plain Go map written by   *)
(* every worker with no lock.  A write that overlaps another access is a   *)
(* data race: the runtime may throw the fatal "concurrent map writes", or  *)
(* go on, and then the write may or may not take effect.                   *)
(***************************************************************************)
MapAssignBegin(w) ==
    IF mapWriters = {}
    THEN /\ mapWriters' = {w}
         /\ raced' = raced
         /\ crashed' = FALSE
    ELSE /\ mapWriters' = mapWriters \cup {w}
         /\ raced' = raced \cup mapWriters \cup {w}
         /\ crashed' \in BOOLEAN

MapAssignEnd(w, k, v) ==
    /\ mapWriters' = mapWriters \ {w}
    /\ raced' = raced \ {w}
    /\ IF w \in raced
       THEN /\ uploadedFiles' \in {MapSet(uploadedFiles, k, v), uploadedFiles}
            /\ crashed' \in BOOLEAN
       ELSE /\ uploadedFiles' = MapSet(uploadedFiles, k, v)
            /\ crashed' = FALSE

(***************************************************************************)
(* handler.go:113-121: look the key up in the parsed form; a missing key   *)
(* ends the worker (nil when ignored, an error otherwise); a present key   *)
(* starts the write uploadedFiles[key] = make(...).                        *)
(***************************************************************************)
Lookup(w) ==
    /\ phase = "run" /\ ~crashed
    /\ wpc[w] = "start"
    /\ IF form[keys[w]] = 0
       THEN /\ Return(w, IF gfm.ignoreNonExistentKeys THEN NoErr
                         ELSE ErrFilesNotFoundInKey(keys[w]))
            /\ UNCHANGED <<mapVars, widx, tmp, nUploads, nOpens, nStored,
                           rejection>>
       ELSE /\ MapAssignBegin(w)
            /\ wpc' = [wpc EXCEPT ![w] = "making"]
            /\ UNCHANGED <<uploadedFiles, grpVars, widx, werr, tmp,
                           nUploads, nOpens, nStored, rejection, handles>>
    /\ UNCHANGED <<cfgVars, reqVars>>

\* handler.go:121 takes effect; the loop over the headers starts.
MakeEnd(w) ==
    /\ phase = "run" /\ ~crashed
    /\ wpc[w] = "making"
    /\ MapAssignEnd(w, keys[w], <<>>)
    /\ wpc' = [wpc EXCEPT ![w] = "file"]
    /\ widx' = [widx EXCEPT ![w] = 1]
    /\ UNCHANGED <<cfgVars, reqVars, grpVars, werr, tmp, nUploads, nOpens,
                   nStored, rejection, handles>>

(***************************************************************************)
(* handler.go:123-159: open the next file, name it, sniff it, validate it  *)
(* and call Storage.Upload.  Each of open, sniff and validate may fail and *)
(* end the worker.                                                         *)
(***************************************************************************)
StartFile(w) ==
    /\ phase = "run" /\ ~crashed
    /\ wpc[w] = "file"
    /\ widx[w] <= form[keys[w]]
    /\ nOpens' = [nOpens EXCEPT ![w] = @ + 1]
    /\ \E fate \in {"open", "sniff", "validate", "ok"} :
         CASE fate = "open" ->
                /\ Return(w, ErrCouldNotOpenFile(keys[w]))
                /\ UNCHANGED <<nUploads, rejection>>
           [] fate = "sniff" ->
                /\ Return(w, ErrInvalidMimeType(keys[w]))
                /\ UNCHANGED <<nUploads, rejection>>
           [] fate = "validate" ->
                \E err \in Rejections :
                   /\ rejection' = [rejection EXCEPT ![w] = err]
                   /\ Return(w, ErrValidationFailed(keys[w], err))
                   /\ UNCHANGED nUploads
           [] fate = "ok" ->
                /\ wpc' = [wpc EXCEPT ![w] = "inflight"]
                /\ handles' = [handles EXCEPT ![w] = @ + 1]
                /\ nUploads' = [nUploads EXCEPT ![w] = @ + 1]
                /\ UNCHANGED <<werr, grpVars, rejection>>
    /\ UNCHANGED <<cfgVars, reqVars, mapVars, widx, tmp, nStored>>

\* handler.go:173: no header is left, the worker returns nil.
WorkerDone(w) ==
    /\ phase = "run" /\ ~crashed
    /\ wpc[w] = "file"
    /\ widx[w] > form[keys[w]]
    /\ Return(w, NoErr)
    /\ UNCHANGED <<cfgVars, reqVars, mapVars, widx, tmp, nUploads, nOpens,
                   nStored, rejection>>

\* handler.go:160: a Storage.Upload call that returned an error ends the worker.
UploadFailed_Ignored(ok) == FALSE
UploadFailed(ok) == ~ok

(***************************************************************************)
(* handler.go:156-170: Storage.Upload returns.  On an error the worker     *)
(* ends; otherwise uploadedFiles[key] = append(uploadedFiles[key], data)   *)
(* reads the map and starts the write of it.                               *)
(***************************************************************************)
UploadReturn(w) ==
    /\ phase = "run" /\ ~crashed
    /\ wpc[w] = "inflight"
    /\ \E ok \in BOOLEAN :
         /\ nStored' = [nStored EXCEPT ![w] = IF ok THEN @ + 1 ELSE @]
         /\ IF ~UploadFailed(ok)
            THEN /\ tmp' = [tmp EXCEPT ![w] = MapGet(uploadedFiles, keys[w])]
                 /\ MapAssignBegin(w)
                 /\ wpc' = [wpc EXCEPT ![w] = "appending"]
                 /\ UNCHANGED <<uploadedFiles, werr, handles, grpVars>>
            ELSE /\ Return(w, ErrCouldNotUploadFile(keys[w]))
                 /\ UNCHANGED <<mapVars, tmp>>
    /\ UNCHANGED <<cfgVars, reqVars, widx, nUploads, nOpens, rejection>>

\* handler.go:170: the write takes effect; on to the next header.
AppendEnd(w) ==
    /\ phase = "run" /\ ~crashed
    /\ wpc[w] = "appending"
    /\ MapAssignEnd(w, keys[w], Append(tmp[w], File(keys[w], widx[w])))
    /\ wpc' = [wpc EXCEPT ![w] = "file"]
    /\ widx' = [widx EXCEPT ![w] = @ + 1]
    /\ tmp' = [tmp EXCEPT ![w] = <<>>]
    /\ UNCHANGED <<cfgVars, reqVars, grpVars, werr, nUploads, nOpens, nStored,
                   rejection, handles>>

(***************************************************************************)
(* handler.go:177-188: wg.Wait(), then either the error responder or the   *)
(* publication of the results and the next handler; the deferred cancel()  *)
(* runs when the handler returns.                                          *)
(***************************************************************************)
WaitAndFinish ==
    /\ phase = "run" /\ ~crashed
    /\ spawned = Len(keys)
    /\ WaitReturns(wpc, spawned)
    /\ IF WaitFailed(gErr)
       THEN /\ responderCalls' = Append(responderCalls, gErr)
            /\ UNCHANGED <<ctxParent, ctxNext, nextCalls>>
       ELSE /\ ctxNext' = addFilesToContext(ctxParent, uploadedFiles)
            /\ ctxParent' = ParentAfterAdd(ctxParent, uploadedFiles)
            /\ nextCalls' = nextCalls + 1
            /\ responderCalls' = responderCalls
    /\ phase' = "done"
    /\ ctxCancelled' = TRUE
    /\ UNCHANGED <<cfgVars, oversize, overrun, parsed, form, spawned, gErr,
                   firstFailed, wrkVars, mapVars>>

Next ==
    \/ ParseRequest
    \/ Spawn
    \/ \E w \in Workers : Lookup(w)
    \/ \E w \in Workers : MakeEnd(w)
    \/ \E w \in Workers : StartFile(w)
    \/ \E w \in Workers : WorkerDone(w)
    \/ \E w \in Workers : UploadReturn(w)
    \/ \E w \in Workers : AppendEnd(w)
    \/ WaitAndFinish

Spec == Init /\ [][Next]_vars

\* The Go scheduler runs every goroutine that can take a step, and every
\* Storage.Upload call returns: a request goes on while a step is possible.
FairSpec == Spec /\ WF_vars(Next)

TypeOK ==
    /\ phase \in {"start", "run", "done"}
    /\ spawned \in 0..Len(keys)
    /\ \A w \in Workers : wpc[w] \in {"idle", "start", "making", "file",
           "inflight", "appending", "returned"}
    /\ mapWriters \subseteq Workers
    /\ raced \subseteq mapWriters
    /\ Len(responderCalls) <= 1
    /\ nextCalls \in 0..1

(***************************************************************************)
(* The context store on its own (context.go): addFilesToContext is applied *)
(* again and again, each call to the context the call before returned.     *)
(* Upload is its only caller, and it hands over slices whose records carry *)
(* the map key as FieldName (handler.go:121, 141, 170).  The records of    *)
(* call c are named c * 10 + i, so that every record is told apart.        *)
(***************************************************************************)
Slices(k, c) ==
    {[i \in 1..n |-> File(k, c * 10 + i)] : n \in 0..MaxSlice}
SuppliedMaps(c) ==
    UNION {{f \in [D -> UNION {Slices(k, c) : k \in D}] :
               \A k \in D : f[k] \in Slices(k, c)} : D \in SUBSET Fields}

uploadVars == <<gfm, keys, reqVars, grpVars, wrkVars, mapVars>>

InitCtx ==
    /\ Init
    /\ keys = <<>>
    /\ ~gfm.ignoreNonExistentKeys

\* ctx' := addFilesToContext(ctx, files); the contexts that hold the map
\* object see the call's additions.
AddFiles ==
    /\ Len(supplied) < MaxCalls
    /\ \E files \in SuppliedMaps(Len(supplied) + 1) :
         LET ctx == chain[Len(chain)]
         IN  /\ chain' = Append([i \in 1..Len(chain) |->
                                   ParentAfterAdd(chain[i], files)],
                                addFilesToContext(ctx, files))
             /\ supplied' = Append(supplied, files)
    /\ UNCHANGED <<uploadVars, valVars, unitVars>>

NextCtx == AddFiles

SpecCtx == InitCtx /\ [][NextCtx]_vars

(***************************************************************************)
(* The validators on their own (part_003).  A run is either one call of a  *)
(* chained validator, gone through iteration by iteration, or one call of  *)
(* a MIME validator.  A validator of a chain is given by what it returns   *)
(* for the file: nil or an error.                                          *)
(***************************************************************************)
Verdicts == {"nil"} \cup Rejections
ValidatorLists == UNION {[1..n -> Verdicts] : n \in 0..MaxChain}
AllowLists == UNION {[1..n -> Strings(MaxMime)] : n \in 0..MaxAllow}

InitVal ==
    /\ InitUpload /\ keys = <<>> /\ ~gfm.ignoreNonExistentKeys
    /\ StoreIdle /\ UnitsIdle
    /\ \/ /\ validators \in ValidatorLists
          /\ vIdx = 1 /\ invoked = <<>> /\ chainErr = "nil" /\ vpc = "loop"
          /\ MimeIdle
       \/ /\ validMimeTypes \in AllowLists
          /\ file \in {[MimeType |-> m] : m \in Strings(MaxMime)}
          /\ mimeErr = NilError /\ mpc = "call"
          /\ ChainIdle

\* part_003:35-38: one iteration: call the validator, return its error.
CallValidator ==
    /\ vpc = "loop"
    /\ vIdx <= Len(validators)
    /\ invoked' = Append(invoked, vIdx)
    /\ LET err == validators[vIdx]
       IN  IF Rejects(err)
           THEN /\ chainErr' = err
                /\ vpc' = "returned"
                /\ vIdx' = vIdx
           ELSE /\ vIdx' = vIdx + 1
                /\ UNCHANGED <<chainErr, vpc>>
    /\ UNCHANGED <<uploadVars, storeVars, unitVars, validators,
                   validMimeTypes, file, mimeErr, mpc>>

\* part_003:40: the loop is over, the chained validator returns nil.
ChainReturnNil ==
    /\ vpc = "loop"
    /\ vIdx > Len(validators)
    /\ chainErr' = "nil"
    /\ vpc' = "returned"
    /\ UNCHANGED <<uploadVars, storeVars, unitVars, validators, vIdx, invoked,
                   validMimeTypes, file, mimeErr, mpc>>

\* part_003:15-23: one call of the validator ValidateMimeType returned.
CallMimeValidator ==
    /\ mpc = "call"
    /\ mimeErr' = ValidateMimeType(validMimeTypes, file)
    /\ mpc' = "returned"
    /\ UNCHANGED <<uploadVars, storeVars, unitVars, validators, vIdx, invoked,
                   chainErr, vpc, validMimeTypes, file>>

NextVal == CallValidator \/ ChainReturnNil \/ CallMimeValidator

SpecVal == InitVal /\ [][NextVal]_vars

(***************************************************************************)
(* One worker's loop on its own (handler.go:123-173), with the whole File  *)
(* record.  The name generator, the sniffer, the validator and the storage *)
(* are the caller's: what they return is drawn.                            *)
(***************************************************************************)
Headers == {[Filename |-> "x.txt", Size |-> 1], [Filename |-> "y.txt", Size |-> 2]}
HeaderLists == UNION {[1..n -> Headers] : n \in 1..MaxSlice}
Buckets == {"bucket-1", "bucket-2"}
GeneratedNames == {"name-1", "name-2"}
SniffedTypes == {"text/plain", "image/png"}
Metadatas ==
    {[FolderDestination |-> "dir-1", Key |-> "key-1", Size |-> 3],
     [FolderDestination |-> "dir-2", Key |-> "key-2", Size |-> 4]}

InitFile ==
    /\ UploadIdle /\ StoreIdle /\ ChainIdle /\ MimeIdle
    /\ NewIdle /\ SniffIdle /\ NameIdle
    /\ headers \in HeaderLists
    /\ bucket \in Buckets
    /\ fkey \in Fields
    /\ hidx = 1 /\ fpc = "open" /\ ferr = NoErr
    /\ uploadedFileName = "" /\ fileData = NoFileData
    /\ named = <<>> /\ validated = <<>> /\ uploads = <<>> /\ metas = <<>>
    /\ fileList = <<>>

otherVars == <<uploadVars, storeVars, valVars, newVars, sniffVars, nameVars>>

\* handler.go:125-129: header.Open()
OpenFile ==
    /\ fpc = "open" /\ hidx <= Len(headers)
    /\ \E ok \in BOOLEAN :
         IF ok THEN fpc' = "name" /\ ferr' = ferr
         ELSE fpc' = "returned" /\ ferr' = ErrCouldNotOpenFile(fkey)
    /\ UNCHANGED <<otherVars, headers, bucket, fkey, hidx, uploadedFileName,
                   fileData, named, validated, uploads, metas, fileList>>

\* handler.go:131: the name generator is called with header.Filename.
NameFile ==
    /\ fpc = "name"
    /\ \E out \in GeneratedNames :
         /\ uploadedFileName' = out
         /\ named' = Append(named, [arg |-> headers[hidx].Filename, out |-> out])
    /\ fpc' = "sniff"
    /\ UNCHANGED <<otherVars, headers, bucket, fkey, hidx, ferr, fileData,
                   validated, uploads, metas, fileList>>

\* handler.go:134-148: FetchContentType, then the File literal.
SniffFile ==
    /\ fpc = "sniff"
    /\ \/ /\ fpc' = "returned" /\ ferr' = ErrInvalidMimeType(fkey)
          /\ UNCHANGED fileData
       \/ \E mimeType \in SniffedTypes :
             /\ fileData' = FileData(fkey, headers[hidx], uploadedFileName,
                                     mimeType)
             /\ fpc' = "validate" /\ ferr' = ferr
    /\ UNCHANGED <<otherVars, headers, bucket, fkey, hidx, uploadedFileName,
                   named, validated, uploads, metas, fileList>>

\* handler.go:151-153: the validator is called with fileData.
ValidateFile ==
    /\ fpc = "validate"
    /\ validated' = Append(validated, fileData)
    /\ \E err \in Verdicts :
         IF err # "nil"
         THEN fpc' = "returned" /\ ferr' = ErrValidationFailed(fkey, err)
         ELSE fpc' = "upload" /\ ferr' = ferr
    /\ UNCHANGED <<otherVars, headers, bucket, fkey, hidx, uploadedFileName,
                   fileData, named, uploads, metas, fileList>>

\* handler.go:156-159: Storage.Upload is called.
CallStorage ==
    /\ fpc = "upload"
    /\ uploads' = Append(uploads, UploadFileOptions(uploadedFileName, bucket))
    /\ fpc' = "inflight"
    /\ UNCHANGED <<otherVars, headers, bucket, fkey, hidx, ferr,
                   uploadedFileName, fileData, named, validated, metas,
                   fileList>>

\* handler.go:160-170: Storage.Upload returned; on success the metadata is
\* merged into fileData and the record appended.
StorageReturn ==
    /\ fpc = "inflight"
    /\ \/ /\ fpc' = "returned" /\ ferr' = ErrCouldNotUploadFile(fkey)
          /\ UNCHANGED <<fileData, metas, fileList, hidx>>
       \/ \E metadata \in Metadatas :
             /\ metas' = Append(metas, metadata)
             /\ fileData' = MergeMetadata(fileData, metadata)
             /\ fileList' = Append(fileList, fileData')
             /\ hidx' = hidx + 1
             /\ fpc' = "open" /\ ferr' = ferr
    /\ UNCHANGED <<otherVars, headers, bucket, fkey, uploadedFileName, named,
                   validated, uploads>>

\* handler.go:173: the loop is over.
LoopDone ==
    /\ fpc = "open" /\ hidx > Len(headers)
    /\ fpc' = "returned"
    /\ UNCHANGED <<otherVars, headers, bucket, fkey, hidx, ferr,
                   uploadedFileName, fileData, named, validated, uploads,
                   metas, fileList>>

NextFile ==
    \/ OpenFile \/ NameFile \/ SniffFile \/ ValidateFile
    \/ CallStorage \/ StorageReturn \/ LoopDone

SpecFile == InitFile /\ [][NextFile]_vars

(***************************************************************************)
(* New on its own: one call for every way of setting the options.          *)
(***************************************************************************)
SizesGiven == -1..MaxSize
OptionSets ==
    [storage : {"nil", "disk"},
     maxSize : SizesGiven,
     ignoreNonExistentKeys : BOOLEAN,
     fileValidator : {"nil", "custom validator"},
     fileNameGenerator : {"nil", "custom generator"},
     uploadErrorHandler : {"nil", "custom responder"}]

baseVars == <<uploadVars, storeVars, valVars, fileVars>>

InitNew ==
    /\ UploadIdle /\ StoreIdle /\ ChainIdle /\ MimeIdle
    /\ FileIdle /\ SniffIdle /\ NameIdle
    /\ options \in OptionSets
    /\ newResult = [handler |-> NilHandler, err |-> "nil"]
    /\ npc = "call"

CallNew ==
    /\ npc = "call"
    /\ newResult' = New(options)
    /\ npc' = "returned"
    /\ UNCHANGED <<baseVars, sniffVars, nameVars, options>>

NextNew == CallNew

SpecNew == InitNew /\ [][NextNew]_vars

(***************************************************************************)
(* The sniffer on its own: FetchContentType is called again and again on   *)
(* one source, which starts at any position.                               *)
(***************************************************************************)
Bytes == {"%", "P", "z"}
Contents == UNION {[1..n -> Bytes] : n \in 0..MaxBytes}
Sources ==
    {[content |-> c, pos |-> p, chunk |-> k] :
        c \in Contents, p \in 0..MaxBytes, k \in 1..MaxBytes}
Fates ==
    {[fail |-> "none", n |-> 0], [fail |-> "first seek", n |-> 0],
     [fail |-> "second seek", n |-> 0]}
       \cup {[fail |-> "read", n |-> n] : n \in 0..MaxBytes}

InitSniff ==
    /\ UploadIdle /\ StoreIdle /\ ChainIdle /\ MimeIdle
    /\ FileIdle /\ NewIdle /\ NameIdle
    /\ source \in {src \in Sources : src.pos <= Len(src.content)}
    /\ sniffLog = <<>>

CallFetchContentType ==
    /\ Len(sniffLog) < MaxSniffs
    /\ \E fate \in Fates :
         LET res == FetchContentType(source, fate)
         IN  /\ source' = res.source
             /\ sniffLog' = Append(sniffLog, [mime |-> res.mime,
                                              err |-> res.err,
                                              pos |-> res.source.pos])
    /\ UNCHANGED <<baseVars, newVars, nameVars>>

NextSniff == CallFetchContentType

SpecSniff == InitSniff /\ [][NextSniff]_vars

(***************************************************************************)
(* The default name generator on its own: two calls, each with any         *)
(* original name at any second.  A name is made of digits, "-" and         *)
(* letters, the characters of the generated part before it.                *)
(***************************************************************************)
NameChars == {"1", "-", "x"}
OriginalNames == UNION {[1..n -> NameChars] : n \in 0..MaxName}

InitName ==
    /\ UploadIdle /\ StoreIdle /\ ChainIdle /\ MimeIdle
    /\ FileIdle /\ NewIdle /\ SniffIdle
    /\ genIn = <<>>
    /\ genOut = <<>>

CallNameGenerator ==
    /\ Len(genIn) < 2
    /\ \E unix \in 0..MaxUnix, str \in OriginalNames :
         /\ genIn' = Append(genIn, [unix |-> unix, name |-> str])
         /\ genOut' = Append(genOut, DefaultFileNameGeneratorFunc(unix, str))
    /\ UNCHANGED <<baseVars, newVars, sniffVars>>

NextName == CallNameGenerator

SpecName == InitName /\ [][NextName]_vars

(***************************************************************************)
(* Vocabulary of the properties.                                           *)
(***************************************************************************)
Requested == {keys[i] : i \in 1..Len(keys)}
Spawned == 1..spawned
KeysDistinct == Cardinality(Requested) = Len(keys)
SomeWorkerFailed == \E w \in Workers : werr[w] # NoErr
AllWorkersSucceeded ==
    /\ parsed
    /\ spawned = Len(keys)
    /\ \A w \in Spawned : wpc[w] = "returned" /\ werr[w] = NoErr
OutcomeReported == Len(responderCalls) > 0 \/ nextCalls > 0
Published == getFilesFromContext(ctxNext)
Count(seq, x) == Cardinality({i \in 1..Len(seq) : seq[i] = x})
\* A worker goes through the files of its field in order, so it has called
\* Storage.Upload for the files 1..nUploads[w] of keys[w].
UploadCallsFor(k, i) ==
    Cardinality({w \in Spawned : keys[w] = k /\ nUploads[w] >= i})
NoWorkStarted ==
    /\ spawned = 0
    /\ \A w \in Workers : wpc[w] = "idle" /\ nOpens[w] = 0 /\ nUploads[w] = 0

(***************************************************************************)
(* C1. Atomic visibility: once a worker has returned an error, nothing is  *)
(* merged into the request context and next is not invoked; publication    *)
(* and next happen only when every worker returned nil.                    *)
(***************************************************************************)
C1_AtomicVisibility ==
    /\ SomeWorkerFailed =>
          /\ nextCalls = 0
          /\ ctxNext = NoCtxValue
          /\ ctxParent = NoCtxValue
    /\ (nextCalls > 0 \/ ctxNext.has) => AllWorkersSucceeded

\* A failed request whose sibling worker had already accumulated a record.
C1_Witness ==
    /\ phase = "done"
    /\ SomeWorkerFailed
    /\ \E k \in DOMAIN uploadedFiles : Len(uploadedFiles[k]) > 0
    /\ Len(responderCalls) = 1
    /\ nextCalls = 0
    /\ ctxNext = NoCtxValue

(***************************************************************************)
(* C2. First-error cancellation: as soon as a worker has returned an       *)
(* error, and before the wait of the handler returns, the context handed   *)
(* to Storage.Upload is cancelled.                                         *)
(***************************************************************************)
C2_FirstErrorCancels ==
    (SomeWorkerFailed /\ phase = "run") => ctxCancelled

(***************************************************************************)
(* C3. No new work after a failure: once some worker has returned an       *)
(* error, no worker opens a further file or begins a further               *)
(* Storage.Upload call.                                                    *)
(***************************************************************************)
C3_NoNewWorkAfterFailure ==
    [][SomeWorkerFailed => (nOpens' = nOpens /\ nUploads' = nUploads)]_vars

(***************************************************************************)
(* C4. Missing field, ignore flag off: the request makes no Storage.Upload *)
(* call for any field, and it ends with the field-not-found error of an    *)
(* absent field and without next.                                          *)
(***************************************************************************)
C4_MissingFieldFailsFast ==
    (/\ parsed
     /\ ~gfm.ignoreNonExistentKeys
     /\ \E k \in Requested : form[k] = 0)
    => /\ \A w \in Workers : nUploads[w] = 0
       /\ phase = "done" =>
             /\ nextCalls = 0
             /\ \E k \in Requested :
                   /\ form[k] = 0
                   /\ responderCalls = <<ErrFilesNotFoundInKey(k)>>

(***************************************************************************)
(* C5. Wait-for-all: when the error responder or next has been invoked, no *)
(* worker is running and no Storage.Upload call is in flight.              *)
(***************************************************************************)
C5_WaitForAll ==
    OutcomeReported =>
       \A w \in Workers : wpc[w] \in {"idle", "returned"} /\ handles[w] = 0

\* An outcome reported after two workers each went through an upload.
C5_Witness ==
    /\ OutcomeReported
    /\ spawned >= 2
    /\ \A w \in Spawned : wpc[w] = "returned" /\ nUploads[w] > 0

(***************************************************************************)
(* C6. Single first error: the error responder is invoked at most once;    *)
(* a request that ends after some worker failed has invoked it exactly     *)
(* once, with the error of the worker that failed first in time; when      *)
(* exactly one worker failed, that is the error of this worker.            *)
(***************************************************************************)
C6_SingleFirstError ==
    /\ Len(responderCalls) <= 1
    /\ (phase = "done" /\ SomeWorkerFailed) =>
          /\ firstFailed # 0
          /\ responderCalls = <<werr[firstFailed]>>
    /\ \A w \in Workers :
          (/\ phase = "done"
           /\ werr[w] # NoErr
           /\ \A v \in Workers \ {w} : werr[v] = NoErr)
          => responderCalls = <<werr[w]>>

\* Two workers failed with different errors, the later started one first.
C6_Witness ==
    /\ phase = "done"
    /\ \E w \in Workers, v \in Workers :
          /\ w < v
          /\ werr[w] # NoErr /\ werr[v] # NoErr /\ werr[w] # werr[v]
          /\ firstFailed = v
          /\ responderCalls = <<werr[v]>>

(***************************************************************************)
(* C7. Race freedom of the accumulator: no two workers are inside a write  *)
(* of uploadedFiles at the same time, and no two workers write the same    *)
(* field slot.                                                             *)
(***************************************************************************)
C7_AccumulatorRaceFree ==
    /\ Cardinality(mapWriters) <= 1
    /\ \A w \in Spawned, v \in Spawned :
          (w # v /\ wpc[w] \notin {"start", "returned"}
                 /\ wpc[v] \notin {"start", "returned"})
          => keys[w] # keys[v]

(***************************************************************************)
(* C8. Exactly once per file: in a successful request, every file of a     *)
(* requested field was handed to Storage.Upload exactly once and has       *)
(* exactly one record in the published list of its field.                  *)
(***************************************************************************)
C8_ExactlyOncePerFile ==
    (phase = "done" /\ nextCalls = 1) =>
       \A k \in Requested : \A i \in 1..form[k] :
          /\ UploadCallsFor(k, i) = 1
          /\ Count(MapGet(Published, k), File(k, i)) = 1

(***************************************************************************)
(* C9 as stated. Size budget: a request whose body is longer than the      *)
(* maximum size gets the size-limit error through the error responder,     *)
(* starts no worker, makes no Storage.Upload call and does not reach next. *)
(***************************************************************************)
C9_SizeBudget ==
    (phase # "start" /\ oversize) =>
       /\ responderCalls = <<ErrFileSizeExceeded>>
       /\ NoWorkStarted
       /\ nextCalls = 0

(***************************************************************************)
(* C9 as amended. A request whose parsing has to read past the maximum     *)
(* size gets the size-limit error, not the generic parse error, through    *)
(* the error responder, starts no worker, makes no Storage.Upload call and *)
(* does not reach next.                                                    *)
(***************************************************************************)
C9_SizeLimitOnOverrun ==
    (phase # "start" /\ overrun) =>
       /\ responderCalls = <<ErrFileSizeExceeded>>
       /\ NoWorkStarted
       /\ nextCalls = 0
       /\ phase = "done"

\* A request refused because its form does not fit the maximum size.
C9_Witness ==
    /\ phase = "done"
    /\ overrun
    /\ responderCalls = <<ErrFileSizeExceeded>>

(***************************************************************************)
(* C10. Full success: a request within the size budget whose requested     *)
(* fields are distinct and all present and whose files all pass is served  *)
(* without the error responder and without a fatal error of the runtime,   *)
(* and it ends with next invoked and with a published mapping that has     *)
(* exactly the requested fields, each holding one record per attached      *)
(* file.                                                                   *)
(***************************************************************************)
C10_FullSuccess ==
    /\ (/\ parsed
        /\ ~oversize
        /\ ~SomeWorkerFailed
        /\ KeysDistinct
        /\ \A k \in Requested : form[k] > 0)
       => (~crashed /\ responderCalls = <<>>)
    /\ (/\ phase = "done"
        /\ ~oversize
        /\ AllWorkersSucceeded
        /\ KeysDistinct
        /\ \A k \in Requested : form[k] > 0)
       =>
       /\ nextCalls = 1
       /\ DOMAIN Published = Requested
       /\ \A k \in Requested :
             /\ Len(MapGet(Published, k)) = form[k]
             /\ \A i \in 1..form[k] : Count(MapGet(Published, k), File(k, i)) = 1


(***************************************************************************)
(* C11. Per-field ordering: the records of every published list are in the *)
(* order of the files of the field in the payload, and the files of a      *)
(* field are handed to Storage.Upload in that order: when a call for file  *)
(* i of a field begins, no call for a later file of the field has begun.   *)
(***************************************************************************)
InPayloadOrder(list) ==
    \A i \in 1..Len(list), j \in 1..Len(list) :
       i < j => list[i].OriginalName <= list[j].OriginalName

UploadsInPayloadOrder ==
    \A w \in Workers :
       nUploads'[w] > nUploads[w] =>
          \A v \in Spawned : keys[v] = keys[w] => nUploads[v] <= nUploads'[w]

ListsInPayloadOrder ==
    /\ \A k \in DOMAIN uploadedFiles : InPayloadOrder(uploadedFiles[k])
    /\ \A k \in DOMAIN Published : InPayloadOrder(Published[k])

C11_PerFieldOrdering == [][ListsInPayloadOrder' /\ UploadsInPayloadOrder]_vars

(***************************************************************************)
(* C12. Stored before listed: in every reachable state a result list, in   *)
(* the accumulator or published, holds a record of a file only for         *)
(* Storage.Upload calls of that file that have returned success, never     *)
(* more records of it than such calls; a worker whose open, sniff,         *)
(* validation or upload of a file failed has added no record of that file. *)
(***************************************************************************)
StoredBy(k, i) == {w \in Spawned : keys[w] = k /\ nStored[w] >= i}

ListedOnlyIfStored(files) ==
    \A k \in DOMAIN files : \A n \in 1..Len(files[k]) :
       /\ files[k][n].FieldName = k
       /\ Count(files[k], files[k][n])
             <= Cardinality(StoredBy(k, files[k][n].OriginalName))

C12_StoredBeforeListed ==
    /\ ListedOnlyIfStored(uploadedFiles)
    /\ ListedOnlyIfStored(Published)

\* A worker stored its first file and failed on the second one: the list of
\* the field holds the record of the first file only.
C12_Witness ==
    \E w \in Spawned :
       /\ werr[w] = ErrCouldNotUploadFile(keys[w])
       /\ nStored[w] = 1 /\ nUploads[w] = 2
       /\ MapGet(uploadedFiles, keys[w]) = <<File(keys[w], 1)>>

(***************************************************************************)
(* C13. Validation rejection: when the validator rejects a file, the       *)
(* worker makes no Storage.Upload call for that file, the request fails    *)
(* with a validation-failed error that names the field key and carries the *)
(* validator's rejection, and no entry is visible through the result       *)
(* readers.                                                                *)
(***************************************************************************)
Rejected == {w \in Spawned : rejection[w] # "-"}

IsValidationFailure(err, key, cause) ==
    /\ err.kind = "validation failed for"
    /\ err.key = key
    /\ "cause" \in DOMAIN err
    /\ err.cause = cause

\* The worker called Storage.Upload for the files before the rejected one only.
NoUploadOfRejected(w) ==
    /\ wpc[w] = "returned"
    /\ nUploads[w] = widx[w] - 1
    /\ nStored[w] = nUploads[w]

RequestFailed ==
    /\ Len(responderCalls) = 1
    /\ nextCalls = 0
    /\ ctxNext = NoCtxValue
    /\ Published = EmptyFiles

\* As claimed: the request's error is the rejecting worker's error.
C13_ValidationRejection ==
    \A w \in Rejected :
       /\ NoUploadOfRejected(w)
       /\ phase = "done" =>
             /\ RequestFailed
             /\ IsValidationFailure(responderCalls[1], keys[w], rejection[w])

\* Amended: the request's error is the rejecting worker's error when that
\* worker is the first one to fail, and the first failure's error otherwise.
C13_RejectionFailsRequest ==
    \A w \in Rejected :
       /\ NoUploadOfRejected(w)
       /\ IsValidationFailure(werr[w], keys[w], rejection[w])
       /\ phase = "done" =>
             /\ RequestFailed
             /\ firstFailed # 0
             /\ responderCalls[1] = werr[firstFailed]
             /\ firstFailed = w =>
                  IsValidationFailure(responderCalls[1], keys[w], rejection[w])

\* The second file of a field was rejected after the first one was stored,
\* and the request ended with that worker's error.
C13_Witness ==
    \E w \in Rejected :
       /\ phase = "done"
       /\ firstFailed = w
       /\ widx[w] = 2 /\ nUploads[w] = 1
       /\ responderCalls = <<ErrValidationFailed(keys[w], rejection[w])>>

(***************************************************************************)
(* C14. Missing field with the ignore flag on: when every step of a        *)
(* request succeeds, a requested field absent from the payload causes no   *)
(* error, the by-field reader returns an empty list and no error for it,   *)
(* and every file of every present sibling field is published; also when   *)
(* every requested field is absent.                                        *)
(***************************************************************************)
AbsentFields == {k \in Requested : form[k] = 0}

C14_MissingFieldIgnored ==
    (/\ gfm.ignoreNonExistentKeys
     /\ phase = "done"
     /\ AllWorkersSucceeded
     /\ AbsentFields # {})
    => /\ nextCalls = 1
       /\ responderCalls = <<>>
       /\ \A k \in AbsentFields :
             GetFilesByFieldFromContext(ctxNext, k) =
                [files |-> <<>>, err |-> "nil"]
       /\ \A k \in Requested \ AbsentFields : \A i \in 1..form[k] :
             Count(GetFilesByFieldFromContext(ctxNext, k).files, File(k, i)) >= 1

(***************************************************************************)
(* C15. Merge, not overwrite: after any sequence of addFilesToContext      *)
(* calls on a chain of contexts, the list stored for each field is the     *)
(* concatenation, in call order, of the lists the calls supplied for the   *)
(* field; no step drops or replaces a stored record, and a field a call    *)
(* does not name keeps its list.                                           *)
(***************************************************************************)
RECURSIVE SuppliedFor(_, _)
SuppliedFor(k, n) ==
    IF n = 0 THEN <<>> ELSE SuppliedFor(k, n - 1) \o MapGet(supplied[n], k)

Store == getFilesFromContext(chain[Len(chain)])

C15_MergeNotOverwrite ==
    /\ \A k \in Fields : MapGet(Store, k) = SuppliedFor(k, Len(supplied))
    /\ \A k \in DOMAIN Store : k \in Fields

\* Three calls: the first two supply records for field a, the third names
\* field b only; field a holds the records of the first two, in call order.
C15_Witness ==
    /\ Len(supplied) = 3
    /\ Len(MapGet(supplied[1], "a")) = 2
    /\ Len(MapGet(supplied[2], "a")) = 1
    /\ DOMAIN supplied[3] = {"b"}
    /\ Len(supplied[3]["b"]) = 1
    /\ MapGet(Store, "a") = <<File("a", 11), File("a", 12), File("a", 21)>>

(***************************************************************************)
(* C16. By-field read failure: GetFilesByFieldFromContext returns the      *)
(* field-missing error for every field that was never populated in the     *)
(* store, also when other fields of the store were populated.              *)
(***************************************************************************)
C16_ByFieldReadFailure ==
    \A k \in Fields \ DOMAIN Store :
       GetFilesByFieldFromContext(chain[Len(chain)], k).err
          = "ErrFieldFilesMissing"

(***************************************************************************)
(* C17. Empty store reads fail: for a context that holds no result mapping *)
(* or an empty one, GetUploadedFilesFromContext returns the                *)
(* no-files-uploaded error and GetFilesByFieldFromContext the              *)
(* field-missing error, for every field; neither returns a result.         *)
(***************************************************************************)
HoldsNothing(ctx) == ~ctx.has \/ ctx.files = EmptyFiles

C17_EmptyStoreReadsFail ==
    \A i \in 1..Len(chain) :
       HoldsNothing(chain[i]) =>
          /\ GetUploadedFilesFromContext(chain[i]).err = "ErrFileNotUploaded"
          /\ \A k \in Fields :
                GetFilesByFieldFromContext(chain[i], k).err
                   = "ErrFieldFilesMissing"

\* Both cases at once: the first context holds no mapping, the last one a
\* mapping that two calls left empty.
C17_Witness ==
    /\ Len(chain) = 3
    /\ ~chain[1].has
    /\ chain[3].has /\ chain[3].files = EmptyFiles
    /\ \E k \in Fields : k \in DOMAIN supplied[2]

(***************************************************************************)
(* C18. Exactly one outcome: every request eventually ends with the error  *)
(* responder invoked once or the next handler invoked once, never with     *)
(* both, and never with neither.                                           *)
(***************************************************************************)
Outcomes == Len(responderCalls) + nextCalls

C18_ExactlyOneOutcome == [](Outcomes <= 1) /\ <>(Outcomes = 1)

(***************************************************************************)
(* C19. Validator chain short-circuit: ChainValidators returns the         *)
(* rejection of the first validator, in the supplied order, that rejects,  *)
(* calls no validator after it, and returns nil exactly when every         *)
(* validator accepts; the empty chain accepts.                             *)
(***************************************************************************)
Rejecting == {j \in 1..Len(validators) : validators[j] # "nil"}
FirstRejecting == CHOOSE j \in Rejecting : \A l \in Rejecting : j <= l

C19_ChainShortCircuit ==
    vpc = "returned" =>
       /\ Rejecting # {} =>
             /\ chainErr = validators[FirstRejecting]
             /\ invoked = [j \in 1..FirstRejecting |-> j]
       /\ Rejecting = {} =>
             /\ chainErr = "nil"
             /\ invoked = [j \in 1..Len(validators) |-> j]
       /\ (chainErr = "nil") <=> (Rejecting = {})

\* [accept, reject, reject]: the second validator's rejection is returned
\* and the third validator, which rejects differently, is not called.
C19_Witness ==
    /\ vpc = "returned"
    /\ Len(validators) = 3
    /\ validators[1] = "nil"
    /\ validators[2] # "nil" /\ validators[3] # "nil"
    /\ validators[2] # validators[3]
    /\ chainErr = validators[2]
    /\ invoked = <<1, 2>>

(***************************************************************************)
(* C20. MIME allowlist: ValidateMimeType accepts a file exactly when its   *)
(* detected MIME type equals some allowlisted type ignoring letter case on *)
(* either side, and otherwise rejects with an error that names the file's  *)
(* detected type; with an empty allowlist every file is rejected.          *)
(***************************************************************************)
Letter(c) == IF c \in {"a", "A"} THEN "letter a" ELSE c
SameIgnoringCase(str, t) ==
    /\ Len(str) = Len(t)
    /\ \A i \in 1..Len(str) : Letter(str[i]) = Letter(t[i])
Allowlisted ==
    \E i \in 1..Len(validMimeTypes) :
       SameIgnoringCase(validMimeTypes[i], file.MimeType)

C20_MimeAllowlist ==
    mpc = "returned" =>
       /\ Allowlisted => mimeErr = NilError
       /\ ~Allowlisted =>
             /\ mimeErr.msg = "unsupported MIME type uploaded"
             /\ mimeErr.mimeType = file.MimeType
       /\ validMimeTypes = <<>> => mimeErr # NilError

\* A file whose detected type is in upper case is accepted for an allowlist
\* entry in lower case that comes after a non-matching entry.
C20_Witness ==
    /\ mpc = "returned"
    /\ mimeErr = NilError
    /\ Len(validMimeTypes) = 2
    /\ file.MimeType = <<"A", "b">>
    /\ validMimeTypes[1] = <<"b">>
    /\ validMimeTypes[2] = <<"a", "b">>

(***************************************************************************)
(* C23. No retry: once a step (open, sniff, validate, upload) has failed   *)
(* for a file, the worker opens no file and calls Storage.Upload for no    *)
(* file any more; and a worker calls Storage.Upload at most once for a     *)
(* file: every call it begins is for its current file, for which it has    *)
(* begun no call before.                                                   *)
(***************************************************************************)
NoStepAfterFailure(w) ==
    werr[w] # NoErr =>
       /\ nOpens'[w] = nOpens[w]
       /\ nUploads'[w] = nUploads[w]
       /\ widx'[w] = widx[w]
       /\ wpc'[w] = "returned"

OneUploadCallPerFile(w) ==
    nUploads'[w] # nUploads[w] =>
       /\ nUploads[w] = widx[w] - 1
       /\ nUploads'[w] = widx[w]
       /\ widx[w] <= form[keys[w]]

C23_NoRetry ==
    [][\A w \in Workers : NoStepAfterFailure(w) /\ OneUploadCallPerFile(w)]_vars

\* The upload of the second of three files failed, and the request ended
\* with the third file never opened.
C23_Witness ==
    \E w \in Spawned :
       /\ phase = "done"
       /\ werr[w] = ErrCouldNotUploadFile(keys[w])
       /\ form[keys[w]] = 3
       /\ widx[w] = 2 /\ nOpens[w] = 2 /\ nUploads[w] = 2

(***************************************************************************)
(* C28. No leaked file handles: a worker that has returned holds no file   *)
(* open, on the success path and on every error path, so no file is open   *)
(* when the error responder or the next handler is invoked.                *)
(***************************************************************************)
C28_NoLeakedHandles ==
    /\ \A w \in Workers : wpc[w] = "returned" => handles[w] = 0
    /\ OutcomeReported => \A w \in Workers : handles[w] = 0

\* A worker stored one file, failed on the next, and the error responder
\* was invoked; another worker ended on the success path.
C28_Witness ==
    /\ Len(responderCalls) = 1
    /\ \E w \in Spawned : werr[w] # NoErr /\ nStored[w] = 1 /\ handles[w] = 0
    /\ \E w \in Spawned : werr[w] = NoErr /\ nStored[w] = 1 /\ handles[w] = 0

(***************************************************************************)
(* C26. Authoritative metadata: in every record of a result list, Size,    *)
(* FolderDestination and StorageKey are the values the Storage.Upload call *)
(* for that file returned, not the size the client reported, while         *)
(* FieldName, OriginalName and MimeType are the values of the record       *)
(* assembled before validation.                                            *)
(***************************************************************************)
C26_AuthoritativeMetadata ==
    /\ Len(fileList) = Len(metas)
    /\ \A n \in 1..Len(fileList) :
          /\ fileList[n].Size = metas[n].Size
          /\ fileList[n].FolderDestination = metas[n].FolderDestination
          /\ fileList[n].StorageKey = metas[n].Key
          /\ fileList[n].FieldName = validated[n].FieldName
          /\ fileList[n].OriginalName = validated[n].OriginalName
          /\ fileList[n].MimeType = validated[n].MimeType
          /\ validated[n].FieldName = fkey
          /\ validated[n].OriginalName = headers[n].Filename
          /\ validated[n].Size = headers[n].Size

\* Two files stored with different metadata; the sizes the storage returned
\* differ from the sizes the client reported.
C26_Witness ==
    /\ fpc = "returned" /\ ferr = NoErr
    /\ Len(fileList) = 2
    /\ metas[1] # metas[2]
    /\ \A n \in 1..2 : fileList[n].Size # headers[n].Size

(***************************************************************************)
(* C27. Name and bucket consistency: within one request the name generator *)
(* is applied exactly once for every file; the name given to the           *)
(* validator, the name given to Storage.Upload and the UploadedFileName of *)
(* the record are that value, and the bucket given to Storage.Upload is    *)
(* the bucket given to Upload.                                             *)
(***************************************************************************)
\* The workers that have called the name generator for file i of field k:
\* those that opened it (handler.go:125-131).
NamedBy(k, i) ==
    {w \in Spawned : /\ keys[w] = k
                     /\ nOpens[w] >= i
                     /\ ~(nOpens[w] = i /\ werr[w] = ErrCouldNotOpenFile(k))}

C27_NameGeneratedOnce ==
    \A k \in Requested : \A i \in 1..form[k] : Cardinality(NamedBy(k, i)) <= 1

\* Within one worker the generated name is the one used throughout.
NameAndBucketConsistent ==
    /\ \A n \in 1..Len(named) : named[n].arg = headers[n].Filename
    /\ Len(named) \in {hidx - 1, hidx}
    /\ \A n \in 1..Len(validated) : validated[n].UploadedFileName = named[n].out
    /\ \A n \in 1..Len(uploads) :
          uploads[n] = [FileName |-> named[n].out, Bucket |-> bucket]
    /\ \A n \in 1..Len(fileList) : fileList[n].UploadedFileName = named[n].out

(***************************************************************************)
(* C25. addFilesToContext leaves its input context unchanged: the mapping  *)
(* readable from every context that existed before a call is after the     *)
(* call what it was before; only the returned context shows the added      *)
(* files.                                                                  *)
(***************************************************************************)
C25_InputContextUnchanged ==
    [][\A i \in 1..Len(chain) :
          getFilesFromContext(chain'[i]) = getFilesFromContext(chain[i])]_vars

(***************************************************************************)
(* C22. Construction: New returns an error exactly when no storage backend *)
(* was supplied; every handler it returns has a storage backend, a         *)
(* positive maximum size (a non-positive or unset size is replaced by the  *)
(* default, a positive one is kept), a validator that defaults to the      *)
(* accept-everything one, a name generator, an error responder, and a      *)
(* missing-field flag that is off unless it was set.                       *)
(***************************************************************************)
C22_Construction ==
    npc = "returned" =>
       LET h == newResult.handler
       IN  /\ (newResult.err # "nil") <=> (options.storage = "nil")
           /\ newResult.err = "nil" =>
                /\ h.storage = options.storage /\ h.storage # "nil"
                /\ h.maxSize > 0
                /\ h.maxSize = IF options.maxSize > 0 THEN options.maxSize
                               ELSE DefaultMaxFileUploadSize
                /\ h.fileValidator # "nil"
                /\ options.fileValidator = "nil" =>
                      /\ h.fileValidator = "DefaultFileValidator"
                      /\ \A f \in Headers : DefaultFileValidator(f) = "nil"
                /\ options.fileValidator # "nil" =>
                      h.fileValidator = options.fileValidator
                /\ h.fileNameGenerator # "nil"
                /\ h.uploadErrorHandler # "nil"
                /\ h.ignoreNonExistentKeys = options.ignoreNonExistentKeys

\* A storage and a negative size were given, nothing else: the handler has
\* the default size and the defaults of the three functions.
C22_Witness ==
    /\ npc = "returned"
    /\ newResult.err = "nil"
    /\ options.maxSize < 0
    /\ options.fileValidator = "nil"
    /\ ~options.ignoreNonExistentKeys
    /\ newResult.handler.maxSize = DefaultMaxFileUploadSize
    /\ newResult.handler.fileNameGenerator = "DefaultFileNameGeneratorFunc"

(***************************************************************************)
(* C21. Sniffer idempotence: for a source at any starting position, a      *)
(* successful FetchContentType leaves the read position at offset 0, and   *)
(* a later successful FetchContentType on the same source returns the same *)
(* MIME type and again leaves the position at 0.                           *)
(***************************************************************************)
Succeeded == {i \in 1..Len(sniffLog) : sniffLog[i].err = "nil"}

C21_SnifferIdempotence ==
    /\ \A i \in Succeeded : sniffLog[i].pos = 0 /\ sniffLog[i].mime # ""
    /\ \A i \in Succeeded : \A j \in Succeeded :
          sniffLog[i].mime = sniffLog[j].mime
    /\ Succeeded # {} /\ Len(sniffLog) \in Succeeded => source.pos = 0

\* A PDF that is read two bytes at a time was sniffed twice.
C21_Witness ==
    /\ Cardinality(Succeeded) = 2
    /\ source.content = <<"%", "P", "z">>
    /\ source.chunk = 2
    /\ sniffLog[1].mime = "application/pdf"
    /\ sniffLog[2].mime = "application/pdf"

(***************************************************************************)
(* C24. Sniffer position on every return: FetchContentType leaves the      *)
(* source's read position at offset 0 on every return path, also when it   *)
(* returns an error after having read from the source.                     *)
(***************************************************************************)
C24_PositionOnEveryReturn ==
    \A i \in 1..Len(sniffLog) : sniffLog[i].pos = 0

(***************************************************************************)
(* C29. Default name generator collisions: the generated name is the fixed *)
(* prefix, the Unix second and the original name verbatim; two generated   *)
(* names are equal only if the original names are equal and the calls fell *)
(* in the same second, so different names or different seconds give        *)
(* different storage names.                                                *)
(***************************************************************************)
EndsWith(str, suffix) ==
    /\ Len(suffix) <= Len(str)
    /\ SubSeq(str, Len(str) - Len(suffix) + 1, Len(str)) = suffix
StartsWith(str, prefix) ==
    Len(prefix) <= Len(str) /\ SubSeq(str, 1, Len(prefix)) = prefix

====
